---- MODULE Spec2Model ----
(***************************************************************************)
(* Model of the NOVA PSM adapter (src/src/amm/nova_psm_amm.rs) and of its  *)
(* swap evaluator (src/src/math/swap_curve_info.rs).                       *)
(*                                                                         *)
(* An adapter is a record: key, label, state (the decoded SwapV1),         *)
(* reserve_mints, reserves, program_id.  The adapters alive are the        *)
(* domain of amms.  Results of fallible calls are records                  *)
(* [ok |-> TRUE, val |-> v] or [ok |-> FALSE, err |-> e]; a panic of an    *)
(* overflow-checked build is the error "panic".                            *)
(*                                                                         *)
(* Integer widths are scaled: u64 holds Bits64 bits and u128 twice that.   *)
(***************************************************************************)
EXTENDS Integers, Sequences, FiniteSets, TLC

VARIABLES keyed_account, amms, installed, lastOp

vars == <<keyed_account, amms, installed, lastOp>>

----------------------------------------------------------------------------
(* Bounds and scaled integer types *)

Bits64 == 2

U64Max == 2^Bits64 - 1

U128Max == 2^(2 * Bits64) - 1

AmmIds == {"a1", "a2"}

Balances == {0, 1, U64Max}

Amounts == {0, 1, U64Max}

Timestamps == {0, 1}

ClockOutcomes == {[ok |-> FALSE, err |-> "UnsupportedSysvar", val |-> 0]}
                 \cup {[ok |-> TRUE, err |-> "", val |-> t] : t \in Timestamps}

None == [some |-> FALSE, val |-> 0]

Some(v) == [some |-> TRUE, val |-> v]

----------------------------------------------------------------------------
(* The pools an adapter can be built from *)

CurveTypes == {"ConstantProduct", "RedemptionRateCurve"}

NoFees ==
    [ trade_fee_numerator |-> 0, trade_fee_denominator |-> 1,
      owner_trade_fee_numerator |-> 0, owner_trade_fee_denominator |-> 1 ]

HalfFees ==
    [ trade_fee_numerator |-> 1, trade_fee_denominator |-> 2,
      owner_trade_fee_numerator |-> 1, owner_trade_fee_denominator |-> 2 ]

UnequalDenominators ==
    [ trade_fee_numerator |-> 1, trade_fee_denominator |-> 2,
      owner_trade_fee_numerator |-> 0, owner_trade_fee_denominator |-> 4 ]

FeeSchedules == {NoFees, HalfFees, UnequalDenominators}

SwapV1(fees, curve_type) ==
    [ is_initialized |-> TRUE,
      bump_seed |-> 255,
      token_program_id |-> "tokenProgram",
      token_a |-> "vaultA",
      token_b |-> "vaultB",
      pool_mint |-> "lpMint",
      token_a_mint |-> "mintA",
      token_b_mint |-> "mintB",
      pool_fee_account |-> "feeAcct",
      fees |-> fees,
      swap_curve |-> [curve_type |-> curve_type, calculator |-> curve_type] ]

PoolStates ==
    { SwapV1(NoFees, "ConstantProduct"),
      SwapV1(HalfFees, "ConstantProduct"),
      SwapV1(NoFees, "RedemptionRateCurve"),
      SwapV1(UnequalDenominators, "RedemptionRateCurve") }

KeyedAccounts ==
    { [key |-> "pool", owner |-> "psmProgram", state |-> st] : st \in PoolStates }

Mints == {"mintA", "mintB", "mintX"}

ReserveAccounts == {"vaultA", "vaultB"}

AccountEntries ==
    { [kind |-> "missing", amount |-> 0], [kind |-> "malformed", amount |-> 0] }
    \cup { [kind |-> "token", amount |-> n] : n \in Balances }

AccountMaps == [ReserveAccounts -> AccountEntries]

----------------------------------------------------------------------------
(* FeeModel: math/fees.rs and the fee arithmetic of the curve crate.       *)
(* Neither is under src/; both follow the specification, section 4.1.      *)

Fees_new(tn, td, on, od) ==
    [ trade_fee_numerator |-> tn, trade_fee_denominator |-> td,
      owner_trade_fee_numerator |-> on, owner_trade_fee_denominator |-> od ]

\* (trade numerator + owner numerator) / trade denominator, as the pair
\* <<numerator, denominator>>; ConfigurationError when the denominators differ
fee_pct(fees) ==
    IF fees.trade_fee_denominator = 0
       \/ fees.trade_fee_denominator # fees.owner_trade_fee_denominator
    THEN [ok |-> FALSE, err |-> "ConfigurationError", val |-> <<0, 1>>]
    ELSE [ok |-> TRUE, err |-> "",
          val |-> << fees.trade_fee_numerator + fees.owner_trade_fee_numerator,
                     fees.trade_fee_denominator >>]

\* floor(gross * numerator / denominator), Overflow when the product leaves u128
calculate_fee(gross, numerator, denominator) ==
    IF denominator = 0 \/ gross * numerator > U128Max
    THEN [ok |-> FALSE, err |-> "Overflow", val |-> 0]
    ELSE [ok |-> TRUE, err |-> "", val |-> (gross * numerator) \div denominator]

DefaultCurveResult ==
    [ source_amount_swapped |-> 0, destination_amount_swapped |-> 0,
      trade_fee |-> 0, owner_fee |-> 0 ]

CurveErr(e) == [ok |-> FALSE, err |-> e, val |-> DefaultCurveResult]

CurveOk(consumed, produced, trade_fee, owner_fee) ==
    [ ok |-> TRUE, err |-> "",
      val |-> [ source_amount_swapped |-> consumed,
                destination_amount_swapped |-> produced,
                trade_fee |-> trade_fee, owner_fee |-> owner_fee ] ]

----------------------------------------------------------------------------
(* CurveCalculator: nova_psm::curve, not under src/; it follows the        *)
(* specification, section 4.2.                                             *)

\* the constant-product invariant applied to the input net of fees:
\* output = destinationReserve - floor(source * destination / (source + net))
constant_product_swap(net, swap_source_amount, swap_destination_amount) ==
    LET invariant == swap_source_amount * swap_destination_amount
        new_source == swap_source_amount + net
    IN  IF invariant > U128Max \/ new_source > U128Max
        THEN [ok |-> FALSE, err |-> "Overflow", val |-> 0]
        ELSE LET new_destination == invariant \div new_source
             IN  IF new_destination = 0
                 THEN [ok |-> FALSE, err |-> "InsufficientLiquidity", val |-> 0]
                 ELSE [ok |-> TRUE, err |-> "",
                       val |-> swap_destination_amount - new_destination]

\* the rate of the redemption-rate curve: linear accrual over the time
\* elapsed since the pool's reference point (reference point 0)
redemption_rate(timestamp) == 1 + timestamp

SwapCurve_swap(swap_curve, source_amount, swap_source_amount, swap_destination_amount, trade_direction, fees, timestamp_opt) ==
    IF swap_curve.curve_type = "RedemptionRateCurve" /\ ~timestamp_opt.some
    THEN CurveErr("MissingTimestamp")
    ELSE IF swap_source_amount = 0 \/ swap_destination_amount = 0
    THEN CurveErr("InsufficientLiquidity")
    ELSE IF source_amount = 0
    THEN CurveOk(0, 0, 0, 0)
    ELSE
      LET trade == calculate_fee(source_amount, fees.trade_fee_numerator,
                                 fees.trade_fee_denominator)
          owner == calculate_fee(source_amount, fees.owner_trade_fee_numerator,
                                 fees.owner_trade_fee_denominator)
      IN  IF ~trade.ok \/ ~owner.ok \/ trade.val + owner.val > source_amount
          THEN CurveErr("Overflow")
          ELSE
            LET net == source_amount - trade.val - owner.val
                scaled == IF swap_curve.curve_type = "RedemptionRateCurve"
                          THEN net * redemption_rate(timestamp_opt.val)
                          ELSE net
            IN  IF scaled > U128Max
                THEN CurveErr("Overflow")
                ELSE
                  LET out == constant_product_swap(scaled, swap_source_amount,
                                                   swap_destination_amount)
                  IN  IF ~out.ok
                      THEN CurveErr(out.err)
                      ELSE CurveOk(source_amount, out.val, trade.val, owner.val)

----------------------------------------------------------------------------
(* SwapEvaluator: math/swap_curve_info.rs *)

DefaultSwapResult ==
    [ expected_output_amount |-> 0, fees |-> 0, input_amount |-> 0,
      fee_pct |-> <<0, 1>> ]

NoCall ==
    [ reached |-> FALSE, source_amount |-> 0, swap_source_amount |-> 0,
      swap_destination_amount |-> 0, trade_direction |-> "", timestamp |-> None ]

\* no timestamp whatever the curve
timestamp_opt_always_none(curve_type, clock) ==
    [ok |-> TRUE, err |-> "", val |-> None]

\* Some(Clock::get()?.unix_timestamp) for the redemption-rate curve, else None
timestamp_opt_of(curve_type, clock) ==
    IF curve_type = "RedemptionRateCurve"
    THEN IF clock.ok
         THEN [ok |-> TRUE, err |-> "", val |-> Some(clock.val)]
         ELSE [ok |-> FALSE, err |-> clock.err, val |-> None]
    ELSE [ok |-> TRUE, err |-> "", val |-> None]

\* a + b on u128 with the plain operator: past the range the build either
\* panics (overflow checks on) or wraps (overflow checks off)
add_u128(a, b) ==
    IF a + b <= U128Max
    THEN { [ok |-> TRUE, err |-> "", val |-> a + b] }
    ELSE { [ok |-> FALSE, err |-> "panic", val |-> 0],
           [ok |-> TRUE, err |-> "", val |-> (a + b) % (U128Max + 1)] }

\* the curve's failure replaced by a default result instead of propagated
swap_result_of_unwrap_or_default(curve_result, fees) ==
    { [ ok |-> TRUE, err |-> "",
        val |-> [ expected_output_amount |->
                    curve_result.val.destination_amount_swapped,
                  fees |-> curve_result.val.trade_fee + curve_result.val.owner_fee,
                  input_amount |-> curve_result.val.source_amount_swapped,
                  fee_pct |-> <<0, 1>> ] ] }

\* what follows the curve's swap: the error is propagated, the fee percentage
\* is derived, and the SwapResult is assembled
swap_result_of(curve_result, fees) ==
    IF ~curve_result.ok
    THEN { [ok |-> FALSE, err |-> curve_result.err, val |-> DefaultSwapResult] }
    ELSE
      LET pct == fee_pct(Fees_new(fees.trade_fee_numerator,
                                  fees.trade_fee_denominator,
                                  fees.owner_trade_fee_numerator,
                                  fees.owner_trade_fee_denominator))
      IN  IF ~pct.ok
          THEN { [ok |-> FALSE, err |-> pct.err, val |-> DefaultSwapResult] }
          ELSE { IF sum.ok
                 THEN [ ok |-> TRUE, err |-> "",
                        val |-> [ expected_output_amount |->
                                    curve_result.val.destination_amount_swapped,
                                  fees |-> sum.val,
                                  input_amount |->
                                    curve_result.val.source_amount_swapped,
                                  fee_pct |-> pct.val ] ]
                 ELSE [ok |-> FALSE, err |-> sum.err, val |-> DefaultSwapResult] :
                 sum \in add_u128(curve_result.val.trade_fee,
                                  curve_result.val.owner_fee) }

\* the set of outcomes of one evaluation; each carries the curve call made
get_swap_curve_result(swap_curve, amount, swap_source_amount, swap_destination_amount, trade_direction, fees, clock) ==
    LET ts == timestamp_opt_of(swap_curve.curve_type, clock)
    IN  IF ~ts.ok
        THEN { [ ok |-> FALSE, err |-> ts.err, val |-> DefaultSwapResult,
                 call |-> NoCall ] }
        ELSE
          LET call == [ reached |-> TRUE, source_amount |-> amount,
                        swap_source_amount |-> swap_source_amount,
                        swap_destination_amount |-> swap_destination_amount,
                        trade_direction |-> trade_direction,
                        timestamp |-> ts.val ]
              curve_result == SwapCurve_swap(swap_curve, amount,
                                  swap_source_amount, swap_destination_amount,
                                  trade_direction, fees, ts.val)
          IN  { [ ok |-> r.ok, err |-> r.err, val |-> r.val, call |-> call ] :
                r \in swap_result_of(curve_result, fees) }

----------------------------------------------------------------------------
(* PoolAdapter: amm/nova_psm_amm.rs *)

NOVA_PSM_LABEL == "NOVA PSM"

\* the adapter built from a decoded pool account: reserves start at [0, 0]
from_keyed_account(ka) ==
    [ key |-> ka.key,
      label |-> NOVA_PSM_LABEL,
      state |-> ka.state,
      reserve_mints |-> <<ka.state.token_a_mint, ka.state.token_b_mint>>,
      reserves |-> <<0, 0>>,
      program_id |-> ka.owner ]

get_authority(self) == <<"pda", self.key, self.program_id>>

\* the reserves left at their default instead of copied
clone_default_reserves(self) == [self EXCEPT !.reserves = <<0, 0>>]

\* reserve account A copied into the field of reserve account B
clone_token_a_twice(self) == [self EXCEPT !.state.token_b = self.state.token_a]

clone(self) ==
    [ key |-> self.key,
      label |-> self.label,
      state |-> [ is_initialized |-> self.state.is_initialized,
                  bump_seed |-> self.state.bump_seed,
                  token_program_id |-> self.state.token_program_id,
                  token_a |-> self.state.token_a,
                  token_b |-> self.state.token_b,
                  pool_mint |-> self.state.pool_mint,
                  token_a_mint |-> self.state.token_a_mint,
                  token_b_mint |-> self.state.token_b_mint,
                  pool_fee_account |-> self.state.pool_fee_account,
                  fees |-> self.state.fees,
                  swap_curve |->
                    [ curve_type |-> self.state.swap_curve.curve_type,
                      calculator |-> self.state.swap_curve.calculator ] ],
      reserve_mints |-> self.reserve_mints,
      program_id |-> self.program_id,
      reserves |-> self.reserves ]

clone_amm(self) == clone(self)

get_accounts_to_update(self) == <<self.state.token_a, self.state.token_b>>

has_dynamic_accounts(self) == FALSE

supports_exact_out(self) == FALSE

\* the account's data, or AccountNotFound
try_get_account_data(account_map, key) ==
    IF account_map[key].kind = "missing"
    THEN [ok |-> FALSE, err |-> "AccountNotFound", val |-> account_map[key]]
    ELSE [ok |-> TRUE, err |-> "", val |-> account_map[key]]

\* the token account decoded from the data, or InvalidAccountData
TokenAccount_unpack(data) ==
    IF data.kind = "token"
    THEN [ok |-> TRUE, err |-> "", val |-> data.amount]
    ELSE [ok |-> FALSE, err |-> "InvalidAccountData", val |-> 0]

\* both accounts looked up and decoded, in the order A then B
decode_reserve(account_map, key) ==
    LET data == try_get_account_data(account_map, key)
    IN  IF ~data.ok
        THEN [ok |-> FALSE, err |-> data.err, val |-> 0]
        ELSE TokenAccount_unpack(data.val)

\* slot A written as soon as it is decoded, before account B is looked up
update_partial(self, account_map) ==
    LET a == decode_reserve(account_map, self.state.token_a)
        b == decode_reserve(account_map, self.state.token_b)
    IN  IF ~a.ok THEN [ok |-> FALSE, err |-> a.err, self |-> self]
        ELSE IF ~b.ok
        THEN [ ok |-> FALSE, err |-> b.err,
               self |-> [self EXCEPT !.reserves = <<a.val, self.reserves[2]>>] ]
        ELSE [ ok |-> TRUE, err |-> "",
               self |-> [self EXCEPT !.reserves = <<a.val, b.val>>] ]

update(self, account_map) ==
    LET a == decode_reserve(account_map, self.state.token_a)
        b == decode_reserve(account_map, self.state.token_b)
    IN  IF ~a.ok THEN [ok |-> FALSE, err |-> a.err, self |-> self]
        ELSE IF ~b.ok THEN [ok |-> FALSE, err |-> b.err, self |-> self]
        ELSE [ ok |-> TRUE, err |-> "",
               self |-> [self EXCEPT !.reserves = <<a.val, b.val>>] ]

\* the BtoA branch taking the reserves in the order of the AtoB branch
select_trade_same_order(self, input_mint) ==
    [ trade_direction |-> IF input_mint = self.reserve_mints[1]
                          THEN "AtoB" ELSE "BtoA",
      swap_source_amount |-> self.reserves[1],
      swap_destination_amount |-> self.reserves[2] ]

\* the direction and the (source, destination) reserves of a quote
select_trade(self, input_mint) ==
    IF input_mint = self.reserve_mints[1]
    THEN [ trade_direction |-> "AtoB", swap_source_amount |-> self.reserves[1],
           swap_destination_amount |-> self.reserves[2] ]
    ELSE [ trade_direction |-> "BtoA", swap_source_amount |-> self.reserves[2],
           swap_destination_amount |-> self.reserves[1] ]

DefaultQuote ==
    [ fee_pct |-> <<0, 1>>, in_amount |-> 0, out_amount |-> 0,
      fee_amount |-> 0, fee_mint |-> "" ]

\* u128 to u64 by try_into
try_into_u64(v) ==
    IF v <= U64Max
    THEN [ok |-> TRUE, err |-> "", val |-> v]
    ELSE [ok |-> FALSE, err |-> "TryFromIntError", val |-> 0]

\* the Quote assembled from one outcome of the evaluation
into_quote(swap_result, input_mint) ==
    IF ~swap_result.ok
    THEN [ok |-> FALSE, err |-> swap_result.err, val |-> DefaultQuote]
    ELSE
      LET in_amount == try_into_u64(swap_result.val.input_amount)
          out_amount == try_into_u64(swap_result.val.expected_output_amount)
          fee_amount == try_into_u64(swap_result.val.fees)
      IN  IF ~in_amount.ok \/ ~out_amount.ok \/ ~fee_amount.ok
          THEN [ok |-> FALSE, err |-> "TryFromIntError", val |-> DefaultQuote]
          ELSE [ ok |-> TRUE, err |-> "",
                 val |-> [ fee_pct |-> swap_result.val.fee_pct,
                           in_amount |-> in_amount.val,
                           out_amount |-> out_amount.val,
                           fee_amount |-> fee_amount.val,
                           fee_mint |-> input_mint ] ]

\* the set of outcomes of a quote under one reading of the clock
quote(self, quote_params, clock) ==
    LET t == select_trade(self, quote_params.input_mint)
    IN  { LET q == into_quote(r, quote_params.input_mint)
          IN  [ok |-> q.ok, err |-> q.err, val |-> q.val, call |-> r.call] :
          r \in get_swap_curve_result(self.state.swap_curve,
                    quote_params.amount, t.swap_source_amount,
                    t.swap_destination_amount, t.trade_direction,
                    self.state.fees, clock) }

get_swap_and_account_metas(self, swap_params) ==
    LET swap_source == IF swap_params.source_mint = self.state.token_a_mint
                       THEN self.state.token_a ELSE self.state.token_b
        swap_destination == IF swap_params.source_mint = self.state.token_a_mint
                            THEN self.state.token_b ELSE self.state.token_a
    IN  [ swap |-> "TokenSwap",
          account_metas |->
            [ token_swap_program |-> self.program_id,
              token_program |-> "tokenProgram",
              swap |-> self.key,
              authority |-> get_authority(self),
              user_transfer_authority |-> swap_params.token_transfer_authority,
              source |-> swap_params.source_token_account,
              destination |-> swap_params.destination_token_account,
              pool_mint |-> self.state.pool_mint,
              pool_fee |-> self.state.pool_fee_account,
              swap_destination |-> swap_destination,
              swap_source |-> swap_source ] ]

QuoteParams == [input_mint : Mints, amount : Amounts]

SwapParams ==
    [ source_mint : Mints, token_transfer_authority : {"user"},
      source_token_account : {"userSrc"},
      destination_token_account : {"userDst"} ]

----------------------------------------------------------------------------
(* The state machine: one adapter built by from_keyed_account, then any    *)
(* interleaving of calls on it and on its clones.                          *)

Init ==
    /\ keyed_account \in KeyedAccounts
    /\ amms = ("a1" :> from_keyed_account(keyed_account))
    /\ installed = ("a1" :> <<0, 0>>)
    /\ lastOp = [op |-> "from_keyed_account", self |-> "a1", arg |-> "", res |-> ""]

Update(i, account_map) ==
    LET r == update(amms[i], account_map)
        a == decode_reserve(account_map, amms[i].state.token_a)
        b == decode_reserve(account_map, amms[i].state.token_b)
    IN  /\ amms' = [amms EXCEPT ![i] = r.self]
        /\ installed' = IF a.ok /\ b.ok
                        THEN [installed EXCEPT ![i] = <<a.val, b.val>>]
                        ELSE installed
        /\ lastOp' = [ op |-> "update", self |-> i, arg |-> account_map,
                       res |-> [ok |-> r.ok, err |-> r.err] ]
        /\ UNCHANGED keyed_account

Quote(i, quote_params, clock) ==
    /\ \E r \in quote(amms[i], quote_params, clock) :
          lastOp' = [ op |-> "quote", self |-> i,
                      arg |-> [params |-> quote_params, clock |-> clock],
                      res |-> r ]
    /\ UNCHANGED <<keyed_account, amms, installed>>

GetAccountsToUpdate(i) ==
    /\ lastOp' = [ op |-> "get_accounts_to_update", self |-> i, arg |-> "",
                   res |-> get_accounts_to_update(amms[i]) ]
    /\ UNCHANGED <<keyed_account, amms, installed>>

GetSwapAndAccountMetas(i, swap_params) ==
    /\ lastOp' = [ op |-> "get_swap_and_account_metas", self |-> i,
                   arg |-> swap_params,
                   res |-> get_swap_and_account_metas(amms[i], swap_params) ]
    /\ UNCHANGED <<keyed_account, amms, installed>>

CloneAmm(i, j) ==
    /\ i # j
    /\ amms' = (j :> clone_amm(amms[i])) @@ amms
    /\ installed' = (j :> installed[i]) @@ installed
    /\ lastOp' = [op |-> "clone_amm", self |-> i, arg |-> j, res |-> ""]
    /\ UNCHANGED keyed_account

Next ==
    \/ \E i \in DOMAIN amms, account_map \in AccountMaps : Update(i, account_map)
    \/ \E i \in DOMAIN amms, quote_params \in QuoteParams, clock \in ClockOutcomes :
          Quote(i, quote_params, clock)
    \/ \E i \in DOMAIN amms : GetAccountsToUpdate(i)
    \/ \E i \in DOMAIN amms, swap_params \in SwapParams :
          GetSwapAndAccountMetas(i, swap_params)
    \/ \E i \in DOMAIN amms, j \in AmmIds : CloneAmm(i, j)

Spec == Init /\ [][Next]_vars

----------------------------------------------------------------------------
(* The evaluator on its own: what get_swap_curve_result and quote make of  *)
(* a result of the curve, for every result the curve's type admits.        *)

EdgeU128 == {0, 1, U64Max, U64Max + 1, U128Max}

CurveResults ==
    [ source_amount_swapped : EdgeU128, destination_amount_swapped : EdgeU128,
      trade_fee : EdgeU128, owner_fee : EdgeU128 ]

Evaluate(curve_result, input_mint) ==
    /\ \E r \in swap_result_of([ok |-> TRUE, err |-> "", val |-> curve_result],
                                amms["a1"].state.fees) :
          lastOp' = [ op |-> "evaluate", self |-> "a1",
                      arg |-> [ curve_result |-> curve_result,
                                input_mint |-> input_mint ],
                      res |-> into_quote(r, input_mint) ]
    /\ UNCHANGED <<keyed_account, amms, installed>>

NextEval == \E curve_result \in CurveResults :
               Evaluate(curve_result, amms["a1"].reserve_mints[1])

SpecEval == Init /\ [][NextEval]_vars

----------------------------------------------------------------------------
(* Properties *)

\* C1: a quote selects AtoB when the input mint is the pool's mint A, BtoA
\* when it is mint B, and fails with UnknownAsset, returning no Quote, when
\* the input mint is neither of the pool's mints.
C1_DirectionOrUnknownAsset ==
    lastOp.op = "quote" =>
      LET self == amms[lastOp.self]
          mint == lastOp.arg.params.input_mint
          res == lastOp.res
      IN  /\ (mint = self.reserve_mints[1] /\ res.call.reached
                 => res.call.trade_direction = "AtoB")
          /\ (mint = self.reserve_mints[2] /\ res.call.reached
                 => res.call.trade_direction = "BtoA")
          /\ (mint # self.reserve_mints[1] /\ mint # self.reserve_mints[2]
                 => ~res.ok /\ res.err = "UnknownAsset")

\* C2: a refresh is both-or-neither.  When the lookup or the decoding of
\* either reserve account fails, the refresh returns an error and the
\* cached reserves keep their values; when both succeed, both slots are
\* overwritten with the two decoded balances.  In every state both slots
\* come from the same refresh: the most recent successful one.
C2_RefreshBothOrNeither ==
    /\ [](\A i \in DOMAIN amms : amms[i].reserves = installed[i])
    /\ [][lastOp'.op = "update" =>
            LET i == lastOp'.self
                a == decode_reserve(lastOp'.arg, amms[i].state.token_a)
                b == decode_reserve(lastOp'.arg, amms[i].state.token_b)
            IN  IF a.ok /\ b.ok
                THEN lastOp'.res.ok /\ amms'[i].reserves = <<a.val, b.val>>
                ELSE ~lastOp'.res.ok /\ amms'[i].reserves = amms[i].reserves
         ]_vars

\* a refresh failed on account B after account A decoded to a balance that
\* differs from the cached one, and the cached snapshot is a refreshed one
C2_Witness ==
    /\ lastOp.op = "update"
    /\ ~lastOp.res.ok
    /\ lastOp.arg["vaultA"].kind = "token"
    /\ lastOp.arg["vaultB"].kind # "token"
    /\ amms[lastOp.self].reserves[1] # lastOp.arg["vaultA"].amount
    /\ amms[lastOp.self].reserves # <<0, 0>>

\* C3 (as claimed): each quote is computed from the reserves installed by
\* the most recent successful refresh (source = slot of the input asset,
\* destination = the other slot), a quote never changes the snapshot, and
\* two quotes with the same request and no successful refresh between them
\* return the same result (the same Quote, or both none).
C3_QuoteFromLastRefresh ==
    /\ [](lastOp.op = "quote" /\ lastOp.res.call.reached =>
            LET i == lastOp.self
                mint == lastOp.arg.params.input_mint
                call == lastOp.res.call
            IN  /\ (mint = amms[i].reserve_mints[1] =>
                       /\ call.swap_source_amount = installed[i][1]
                       /\ call.swap_destination_amount = installed[i][2])
                /\ (mint = amms[i].reserve_mints[2] =>
                       /\ call.swap_source_amount = installed[i][2]
                       /\ call.swap_destination_amount = installed[i][1]))
    /\ [][lastOp'.op = "quote" => amms' = amms]_vars
    /\ [][lastOp.op = "quote" /\ lastOp'.op = "quote"
            /\ lastOp'.self = lastOp.self
            /\ lastOp'.arg.params = lastOp.arg.params
          => /\ lastOp'.res.ok = lastOp.res.ok
             /\ lastOp'.res.val = lastOp.res.val]_vars

\* C3 (amended): as claimed, except that two quotes with the same request
\* return the same result only when they also read the same clock; and an
\* adapter changes only by its own successful refresh or by being replaced
\* by a clone, so the quotes in between all see the same snapshot.
C3_QuoteFromLastRefreshSameClock ==
    /\ [](lastOp.op = "quote" /\ lastOp.res.call.reached =>
            LET i == lastOp.self
                mint == lastOp.arg.params.input_mint
                call == lastOp.res.call
            IN  /\ (mint = amms[i].reserve_mints[1] =>
                       /\ call.swap_source_amount = installed[i][1]
                       /\ call.swap_destination_amount = installed[i][2])
                /\ (mint = amms[i].reserve_mints[2] =>
                       /\ call.swap_source_amount = installed[i][2]
                       /\ call.swap_destination_amount = installed[i][1]))
    /\ [][lastOp'.op = "quote" => amms' = amms]_vars
    /\ [][\A i \in DOMAIN amms :
            /\ ~(lastOp'.op = "update" /\ lastOp'.self = i /\ lastOp'.res.ok)
            /\ ~(lastOp'.op = "clone_amm" /\ lastOp'.arg = i)
            => amms'[i] = amms[i]]_vars
    /\ [][lastOp.op = "quote" /\ lastOp'.op = "quote"
            /\ lastOp'.self = lastOp.self
            /\ lastOp'.arg = lastOp.arg
          => /\ lastOp'.res.ok = lastOp.res.ok
             /\ lastOp'.res.err = lastOp.res.err
             /\ lastOp'.res.val = lastOp.res.val]_vars

\* a Quote with a positive output was returned for mint B from a refreshed
\* snapshot whose two slots differ
C3_Witness ==
    /\ lastOp.op = "quote"
    /\ lastOp.res.ok
    /\ lastOp.arg.params.input_mint = "mintB"
    /\ lastOp.res.val.out_amount > 0
    /\ installed[lastOp.self][1] # installed[lastOp.self][2]

\* C4: clone produces an adapter equal to the original (pool descriptor and
\* snapshot) at the moment of the copy and leaves every other adapter as it
\* was; afterwards a refresh of one adapter changes nothing of any other
\* adapter (a quote reads nothing but its own adapter).
C4_CloneIndependent ==
    [][ /\ (lastOp'.op = "clone_amm" =>
              /\ amms'[lastOp'.arg] = amms[lastOp'.self]
              /\ \A k \in DOMAIN amms \ {lastOp'.arg} : amms'[k] = amms[k])
        /\ (lastOp'.op = "update" =>
              \A k \in DOMAIN amms \ {lastOp'.self} : amms'[k] = amms[k])
      ]_vars

\* after a copy, a successful refresh of one adapter left the other with its
\* own, different, refreshed snapshot
C4_Witness ==
    /\ DOMAIN amms = AmmIds
    /\ lastOp.op = "update"
    /\ lastOp.res.ok
    /\ \E k \in AmmIds \ {lastOp.self} :
          /\ amms[k].reserves # amms[lastOp.self].reserves
          /\ amms[k].reserves # <<0, 0>>

\* C10: the pool descriptor is read-only after initialize: after any
\* sequence of refresh, quote, swap-metadata and clone calls every adapter's
\* key, program id, mints, reserve accounts, fees and curve equal the values
\* set at initialize (only the reserves differ), and the accounts to update
\* are the pair (reserve account A, reserve account B) before and after any
\* refresh.
C10_DescriptorReadOnly ==
    /\ \A i \in DOMAIN amms :
          /\ [amms[i] EXCEPT !.reserves = <<0, 0>>]
               = from_keyed_account(keyed_account)
          /\ get_accounts_to_update(amms[i])
               = <<keyed_account.state.token_a, keyed_account.state.token_b>>
          /\ ~has_dynamic_accounts(amms[i])
    /\ (lastOp.op = "get_accounts_to_update" =>
          lastOp.res = <<keyed_account.state.token_a,
                         keyed_account.state.token_b>>)

\* the accounts to update were asked of a clone after the clone was refreshed
C10_Witness ==
    /\ lastOp.op = "get_accounts_to_update"
    /\ lastOp.self = "a2"
    /\ amms["a2"].reserves # <<0, 0>>

\* C5: for the constant-product variant with reserves x > 0 and y > 0, the
\* output b of every returned quote satisfies x*y <= (x + a')*(y - b), a'
\* being the input net of fees, and b < y.
C5_ConstantProductInvariant ==
    lastOp.op = "quote" /\ lastOp.res.ok
      /\ amms[lastOp.self].state.swap_curve.curve_type = "ConstantProduct"
      /\ lastOp.res.call.swap_source_amount > 0
      /\ lastOp.res.call.swap_destination_amount > 0
    => LET x == lastOp.res.call.swap_source_amount
           y == lastOp.res.call.swap_destination_amount
           net == lastOp.res.val.in_amount - lastOp.res.val.fee_amount
           b == lastOp.res.val.out_amount
       IN  x * y <= (x + net) * (y - b) /\ b < y

C7_ZeroInputSucceeds ==
    lastOp.op = "quote" /\ lastOp.arg.params.amount = 0
      /\ amms[lastOp.self].reserves[1] > 0
      /\ amms[lastOp.self].reserves[2] > 0
      /\ amms[lastOp.self].state.fees.trade_fee_denominator
           = amms[lastOp.self].state.fees.owner_trade_fee_denominator
    => /\ lastOp.res.ok
       /\ lastOp.res.val.out_amount = 0
       /\ lastOp.res.val.fee_amount = 0

C9_TimestampIffRedemptionRate ==
    /\ \A a \in Amounts, x \in Balances, y \in Balances, f \in FeeSchedules :
          LET r == SwapCurve_swap([curve_type |-> "RedemptionRateCurve"],
                                  a, x, y, "AtoB", f, None)
          IN  ~r.ok /\ r.err = "MissingTimestamp"
    /\ (lastOp.op = "quote" =>
          LET rr == amms[lastOp.self].state.swap_curve.curve_type
                      = "RedemptionRateCurve"
              call == lastOp.res.call
          IN  /\ (call.reached => (call.timestamp.some <=> rr))
              /\ (call.reached /\ rr =>
                     /\ lastOp.arg.clock.ok
                     /\ call.timestamp = Some(lastOp.arg.clock.val))
              /\ (rr /\ ~lastOp.arg.clock.ok => ~call.reached /\ ~lastOp.res.ok)
              /\ lastOp.res.err # "MissingTimestamp")

\* a quote on a redemption-rate pool reached the curve with the clock's
\* reading 1 and returned a Quote
C9_Witness ==
    /\ lastOp.op = "quote"
    /\ amms[lastOp.self].state.swap_curve.curve_type = "RedemptionRateCurve"
    /\ lastOp.res.call.reached
    /\ lastOp.res.call.timestamp = Some(1)
    /\ lastOp.res.ok
    /\ lastOp.res.val.out_amount > 0

====
